---------------------------- MODULE Spec2Model ----------------------------
(***************************************************************************)
(* Model of dz08.py: a console contact manager.  Field/Name/Phone/Birthday *)
(* value objects, Record, AddressBook, the pickle persistence wrapper, the *)
(* input_error decorator, the command handlers and the main loop.          *)
(*                                                                         *)
(* Representation.                                                          *)
(*   - a str that is validated character by character (a phone number) is  *)
(*     a sequence of characters; a character is a one-element TLA+ string, *)
(*     or the name of a non-ASCII code point;                              *)
(*   - a name or a command word is a TLA+ string;                          *)
(*   - a date text "D.M.Y" is the sequence of its numeric fields;          *)
(*   - a datetime is [year, month, day, tick], tick counting the clock's   *)
(*     resolution steps since midnight (tick 0 is 00:00:00.000000);        *)
(*   - an optional value (None or an object) is a sequence of length <= 1; *)
(*   - an operator that can raise returns [exc, msg, val]: exc is "" when  *)
(*     it returned val and the exception's type when it raised.            *)
(***************************************************************************)
EXTENDS Integers, Sequences, FiniteSets, TLC

VARIABLES book, line, out, pc, file, saves, clock, effective

vars == <<book, line, out, pc, file, saves, clock, effective>>

---------------------------------------------------------------------------
(* Bounds of the model *)

\* most phone numbers one record holds at the console (add is not typed beyond it)
MaxPhones == 2
\* most phone numbers of the record of RecordSpec
MaxRecordPhones == 3
\* longest string handed to Phone() in PhoneSpec
MaxStrLen == 11
\* resolution of the clock: ticks per day
TicksPerDay == 2
\* most ticks that pass between the two datetime.now() calls of one listing
MaxDrift == 1

---------------------------------------------------------------------------
(* Exceptions and results *)

Ok(v) == [exc |-> "", msg |-> "", val |-> <<v>>]

Raise(type, message) == [exc |-> type, msg |-> message, val |-> <<>>]

PhoneError == "Phone number must contain exactly 10 digits."

DateError == "Invalid date format. Use DD.MM.YYYY"

OldPhoneError == "Old phone number not found."

IndexErrorMsg == "list index out of range"

DayRangeError == "day is out of range for month"

---------------------------------------------------------------------------
(* Characters and str.isdigit *)

AsciiDigits == {"0", "1", "2", "3", "4", "5", "6", "7", "8", "9"}

\* decimal digits of other scripts (Unicode category Nd)
OtherDecimalDigits == {"ARABIC-INDIC DIGIT THREE"}

\* characters with the Digit property that are not decimal digits (category No)
NonDecimalDigits == {"SUPERSCRIPT TWO"}

\* str.isdigit(): non-empty and every character has Numeric_Type Digit or Decimal
isdigit(s) ==
    /\ Len(s) > 0
    /\ \A i \in 1..Len(s) : s[i] \in AsciiDigits \cup OtherDecimalDigits \cup NonDecimalDigits

PhoneLen == 10

\* Phone.__init__
Phone(value) ==
    IF ~isdigit(value) \/ Len(value) # PhoneLen
    THEN Raise("ValueError", PhoneError)
    ELSE Ok([value |-> value])

---------------------------------------------------------------------------
(* The proleptic Gregorian calendar of datetime *)

IsLeap(y) == y % 4 = 0 /\ (y % 100 # 0 \/ y % 400 = 0)

DaysInMonth(y, m) ==
    IF m = 2 THEN (IF IsLeap(y) THEN 29 ELSE 28)
    ELSE IF m \in {4, 6, 9, 11} THEN 30 ELSE 31

DaysBeforeYear(y) == (y - 1) * 365 + (y - 1) \div 4 - (y - 1) \div 100 + (y - 1) \div 400

RECURSIVE DaysBeforeMonth(_, _)
DaysBeforeMonth(y, m) ==
    IF m = 1 THEN 0 ELSE DaysBeforeMonth(y, m - 1) + DaysInMonth(y, m - 1)

\* date.toordinal(): 1 is 0001-01-01
ToOrdinal(y, m, d) == DaysBeforeYear(y) + DaysBeforeMonth(y, m) + d

IsDate(y, m, d) ==
    /\ y \in 1..9999
    /\ m \in 1..12
    /\ d \in 1..DaysInMonth(y, m)

\* date.fromordinal(), as datetime._ord2ymd computes it
FromOrdinal(n0) ==
    LET n    == n0 - 1
        n400 == n \div 146097
        r400 == n % 146097
        n100 == r400 \div 36524
        r100 == r400 % 36524
        n4   == r100 \div 1461
        r4   == r100 % 1461
        n1   == r4 \div 365
        r1   == r4 % 365
        year == n400 * 400 + 1 + n100 * 100 + n4 * 4 + n1
    IN  IF n1 = 4 \/ n100 = 4
        THEN [year |-> year - 1, month |-> 12, day |-> 31]
        ELSE LET guess == (r1 + 50) \div 32
                 month == IF DaysBeforeMonth(year, guess) > r1 THEN guess - 1 ELSE guess
             IN  [year |-> year, month |-> month,
                  day |-> r1 - DaysBeforeMonth(year, month) + 1]

\* a datetime as a count of ticks
Ticks(dt) == ToOrdinal(dt.year, dt.month, dt.day) * TicksPerDay + dt.tick

FromTicks(t) ==
    LET d == FromOrdinal(t \div TicksPerDay)
    IN  [year |-> d.year, month |-> d.month, day |-> d.day, tick |-> t % TicksPerDay]

\* datetime.weekday(): Monday is 0
weekday(dt) == (ToOrdinal(dt.year, dt.month, dt.day) + 6) % 7

\* datetime + timedelta(days = n)
PlusDays(dt, n) == FromTicks(Ticks(dt) + n * TicksPerDay)

\* (a - b).days
DaysBetween(a, b) == (Ticks(a) - Ticks(b)) \div TicksPerDay

\* datetime.replace(year = y)
ReplaceYear(dt, y) ==
    IF IsDate(y, dt.month, dt.day)
    THEN Ok([dt EXCEPT !.year = y])
    ELSE Raise("ValueError", DayRangeError)

\* datetime.strptime(value, "%d.%m.%Y")
strptime(value) ==
    IF Len(value) = 3 /\ IsDate(value[3], value[2], value[1])
    THEN Ok([year |-> value[3], month |-> value[2], day |-> value[1], tick |-> 0])
    ELSE Raise("ValueError", "does not match format")

\* datetime.strftime("%d.%m.%Y")
strftime(dt) == <<dt.day, dt.month, dt.year>>

\* Birthday.__init__
Birthday(value) ==
    LET parsed == strptime(value)
    IN  IF parsed.exc = "ValueError"
        THEN Raise("ValueError", DateError)
        ELSE Ok([value |-> parsed.val[1]])

---------------------------------------------------------------------------
(* Record *)

\* the result of a method that mutates self and may raise after mutating
Effect(self, exc, message) == [self |-> self, exc |-> exc, msg |-> message]

\* Record.__init__
Record(name) == [name |-> [value |-> name], phones |-> <<>>, birthday |-> <<>>]

\* Record.add_phone
Record_add_phone(self, phone) ==
    LET p == Phone(phone)
    IN  IF p.exc # ""
        THEN Effect(self, p.exc, p.msg)
        ELSE Effect([self EXCEPT !.phones = Append(@, p.val[1])], "", "")

\* the for loop of Record.change_phone: the index of the first phone, from i on,
\* whose value is old_phone; 0 when the loop runs off the end
RECURSIVE FirstMatch(_, _, _)
FirstMatch(phones, old_phone, i) ==
    IF i > Len(phones) THEN 0
    ELSE IF phones[i].value = old_phone THEN i
    ELSE FirstMatch(phones, old_phone, i + 1)

\* list.remove(x) for the object x held at index i.  Phone defines no __eq__, so
\* remove compares by identity; every Phone in a list is a distinct object (each
\* append constructs one), so the first element identical to x is the one at i.
list_remove(lst, i) == SubSeq(lst, 1, i - 1) \o SubSeq(lst, i + 1, Len(lst))

\* a variant of change_phone that puts the new phone where the old one was
Record_change_phone_inplace(self, old_phone, new_phone) ==
    LET i == FirstMatch(self.phones, old_phone, 1)
        p == Phone(new_phone)
    IN  IF i = 0
        THEN Effect(self, "ValueError", OldPhoneError)
        ELSE IF p.exc # ""
        THEN Effect([self EXCEPT !.phones = list_remove(@, i)], p.exc, p.msg)
        ELSE Effect([self EXCEPT !.phones[i] = p.val[1]], "", "")

\* Record.change_phone: the matching phone is removed before Phone(new_phone) is
\* constructed, so a ValueError from the constructor leaves the phone removed
Record_change_phone(self, old_phone, new_phone) ==
    LET i == FirstMatch(self.phones, old_phone, 1)
    IN  IF i = 0
        THEN Effect(self, "ValueError", OldPhoneError)
        ELSE LET removed == [self EXCEPT !.phones = list_remove(@, i)]
                 p       == Phone(new_phone)
             IN  IF p.exc # ""
                 THEN Effect(removed, p.exc, p.msg)
                 ELSE Effect([removed EXCEPT !.phones = Append(@, p.val[1])], "", "")

\* Record.add_birthday
Record_add_birthday(self, birthday) ==
    LET b == Birthday(birthday)
    IN  IF b.exc # ""
        THEN Effect(self, b.exc, b.msg)
        ELSE Effect([self EXCEPT !.birthday = <<b.val[1]>>], "", "")

\* Record.days_to_birthday, with today the value datetime.now() returns in it
days_to_birthday(self, today) ==
    IF self.birthday = <<>>
    THEN Ok(<<>>)
    ELSE LET this_year == ReplaceYear(self.birthday[1].value, today.year)
         IN  IF this_year.exc # ""
             THEN this_year
             ELSE IF Ticks(this_year.val[1]) < Ticks(today)
                  THEN LET next_year == ReplaceYear(this_year.val[1], today.year + 1)
                       IN  IF next_year.exc # ""
                           THEN next_year
                           ELSE Ok(<<DaysBetween(next_year.val[1], today)>>)
                  ELSE Ok(<<DaysBetween(this_year.val[1], today)>>)

---------------------------------------------------------------------------
(* AddressBook: UserDict.data is an insertion-ordered dict, modelled as the *)
(* sequence of its items [key, value]                                       *)

AddressBook == <<>>

Keys(data) == {data[i].key : i \in 1..Len(data)}

\* key in book
Contains(data, key) == key \in Keys(data)

IndexOf(data, key) == CHOOSE i \in 1..Len(data) : data[i].key = key

\* book[key], for a key that is in book
Get(data, key) == data[IndexOf(data, key)].value

\* data[key] = value: an existing key keeps its place, a new key goes last
SetItem(data, key, value) ==
    IF Contains(data, key)
    THEN [data EXCEPT ![IndexOf(data, key)] = [key |-> key, value |-> value]]
    ELSE Append(data, [key |-> key, value |-> value])

\* a variant of add_record that merges into the record already under the name
add_record_merging(data, record) ==
    IF Contains(data, record.name.value)
    THEN SetItem(data, record.name.value,
                 [record EXCEPT !.phones = Get(data, record.name.value).phones \o @])
    ELSE SetItem(data, record.name.value, record)

\* AddressBook.add_record
add_record(data, record) == SetItem(data, record.name.value, record)

\* a variant of WeekendShift that adds 6 - weekday days
WeekendShift_sixless(next_birthday) ==
    IF weekday(next_birthday) \in {5, 6}
    THEN PlusDays(next_birthday, 6 - weekday(next_birthday))
    ELSE next_birthday

\* lines 66-67: a Saturday or Sunday moves to the next Monday
WeekendShift(next_birthday) ==
    IF weekday(next_birthday) \in {5, 6}
    THEN PlusDays(next_birthday, 7 - weekday(next_birthday))
    ELSE next_birthday

UpcomingDays == 7

\* the for loop of AddressBook.get_upcoming_birthdays from item i on.  nows[i] is
\* what datetime.now() returns inside days_to_birthday for item i.  upcoming is
\* the list built so far, eff the values next_birthday had at line 65.
RECURSIVE UpcomingLoop(_, _, _, _, _, _)
UpcomingLoop(data, i, today, nows, upcoming, eff) ==
    IF i > Len(data)
    THEN [exc |-> "", msg |-> "", upcoming |-> upcoming, effective |-> eff]
    ELSE LET record == data[i].value
         IN  IF record.birthday = <<>>
             THEN UpcomingLoop(data, i + 1, today, nows, upcoming, eff)
             ELSE LET days == days_to_birthday(record, nows[i])
                  IN  IF days.exc # ""
                      THEN [exc |-> days.exc, msg |-> days.msg,
                            upcoming |-> <<>>, effective |-> <<>>]
                      ELSE IF days.val[1] # <<>> /\ 0 <= days.val[1][1]
                                              /\ days.val[1][1] <= UpcomingDays
                           THEN LET next_birthday == PlusDays(today, days.val[1][1])
                                IN  UpcomingLoop(data, i + 1, today, nows,
                                        Append(upcoming,
                                               [name |-> record.name.value,
                                                birthday |-> strftime(WeekendShift(next_birthday))]),
                                        Append(eff, next_birthday))
                           ELSE UpcomingLoop(data, i + 1, today, nows, upcoming, eff)

\* AddressBook.get_upcoming_birthdays
get_upcoming_birthdays(data, today, nows) == UpcomingLoop(data, 1, today, nows, <<>>, <<>>)

---------------------------------------------------------------------------
(* pickle: the directory flattened to a stream of opcodes and built back    *)

Op(op, arg) == [op |-> op, arg |-> arg]

\* a variant of PickleDatetime that keeps only the low byte of the year
PickleDatetime_lowbyte(dt) == <<0, dt.year % 256, dt.month, dt.day, dt.tick>>

\* datetime.__reduce__: the year as two bytes, then month, day and the time
PickleDatetime(dt) == <<dt.year \div 256, dt.year % 256, dt.month, dt.day, dt.tick>>

UnpickleDatetime(b) ==
    [year |-> b[1] * 256 + b[2], month |-> b[3], day |-> b[4], tick |-> b[5]]

PickleRecord(key, record) ==
    <<Op("KEY", key), Op("NAME", record.name.value), Op("LIST", Len(record.phones))>>
    \o [i \in 1..Len(record.phones) |-> Op("PHONE", record.phones[i].value)]
    \o (IF record.birthday = <<>>
        THEN <<Op("NONE", <<>>)>>
        ELSE <<Op("BIRTHDAY", PickleDatetime(record.birthday[1].value))>>)

RECURSIVE PickleItems(_, _)
PickleItems(data, i) ==
    IF i > Len(data) THEN <<>>
    ELSE PickleRecord(data[i].key, data[i].value) \o PickleItems(data, i + 1)

\* pickle.dump(book, f)
pickle_dump(data) ==
    <<Op("DICT", Len(data))>> \o PickleItems(data, 1) \o <<Op("STOP", <<>>)>>

\* the record whose KEY opcode is at position p of the stream
UnpickleRecord(stream, p) ==
    LET n == stream[p + 2].arg
        b == stream[p + 3 + n]
    IN  [key   |-> stream[p].arg,
         value |-> [name     |-> [value |-> stream[p + 1].arg],
                    phones   |-> [i \in 1..n |-> [value |-> stream[p + 2 + i].arg]],
                    birthday |-> IF b.op = "NONE" THEN <<>>
                                 ELSE <<[value |-> UnpickleDatetime(b.arg)]>>],
         next  |-> p + 4 + n]

RECURSIVE UnpickleItems(_, _, _, _)
UnpickleItems(stream, p, left, data) ==
    IF left = 0 THEN data
    ELSE LET r == UnpickleRecord(stream, p)
         IN  UnpickleItems(stream, r.next, left - 1,
                           SetItem(data, r.key, r.value))

\* pickle.load(f)
pickle_load(stream) == UnpickleItems(stream, 2, stream[1].arg, <<>>)

\* save_data: the file's content after it; a file is <<>> (absent) or <<stream>>
save_data(data) == <<pickle_dump(data)>>

\* load_data
load_data(f) == IF f = <<>> THEN AddressBook ELSE pickle_load(f[1])

---------------------------------------------------------------------------
(* The command handlers.  A handler returns [book, exc, msg, out]: the       *)
(* directory as the call left it, the exception that left it (exc = "" for   *)
(* none) and the string it returned.                                         *)

Text(text, data) == [text |-> text, data |-> data]

Returned(data, text, shown) == [book |-> data, exc |-> "", msg |-> "", out |-> Text(text, shown)]

Raised(data, exc, message) == [book |-> data, exc |-> exc, msg |-> message, out |-> Text("", <<>>)]

\* the input_error decorator
input_error(r) ==
    IF r.exc \in {"ValueError", "KeyError", "IndexError"}
    THEN Returned(r.book, "Error:", <<r.msg>>)
    ELSE r

\* book[name].method(...) mutates the record the directory holds
Mutated(data, name, e) ==
    [data EXCEPT ![IndexOf(data, name)] = [key |-> name, value |-> e.self]]

PhoneValues(record) == [i \in 1..Len(record.phones) |-> record.phones[i].value]

add_birthday(args, data) ==
    input_error(
        IF Len(args) < 2 THEN Raised(data, "IndexError", IndexErrorMsg)
        ELSE LET name == args[1]
                 birthday == args[2]
             IN  IF Contains(data, name)
                 THEN LET e == Record_add_birthday(Get(data, name), birthday)
                      IN  IF e.exc # ""
                          THEN Raised(Mutated(data, name, e), e.exc, e.msg)
                          ELSE Returned(Mutated(data, name, e), "Birthday added.", <<name>>)
                 ELSE Returned(data, "Contact not found.", <<>>))

show_birthday(args, data) ==
    input_error(
        IF Len(args) < 1 THEN Raised(data, "IndexError", IndexErrorMsg)
        ELSE LET name == args[1]
             IN  IF Contains(data, name) /\ Get(data, name).birthday # <<>>
                 THEN Returned(data, "birthday:",
                               <<name, strftime(Get(data, name).birthday[1].value)>>)
                 ELSE Returned(data, "Birthday not found for this contact.", <<>>))

birthdays(args, data, today, nows) ==
    input_error(
        LET upcoming == get_upcoming_birthdays(data, today, nows)
        IN  IF upcoming.exc # ""
            THEN Raised(data, upcoming.exc, upcoming.msg)
            ELSE IF upcoming.upcoming = <<>>
                 THEN Returned(data, "No upcoming birthdays.", <<>>)
                 ELSE Returned(data, "upcoming:", upcoming.upcoming))

add_contact(args, data) ==
    input_error(
        IF Len(args) < 2 THEN Raised(data, "IndexError", IndexErrorMsg)
        ELSE LET name == args[1]
                 phone == args[2]
             IN  IF Contains(data, name)
                 THEN LET e == Record_add_phone(Get(data, name), phone)
                      IN  IF e.exc # ""
                          THEN Raised(Mutated(data, name, e), e.exc, e.msg)
                          ELSE Returned(Mutated(data, name, e), "Phone number added.", <<name>>)
                 ELSE LET e == Record_add_phone(Record(name), phone)
                      IN  IF e.exc # ""
                          THEN Raised(data, e.exc, e.msg)
                          ELSE Returned(add_record(data, e.self), "Contact added.", <<name>>))

change_phone(args, data) ==
    input_error(
        IF Len(args) < 3 THEN Raised(data, "IndexError", IndexErrorMsg)
        ELSE LET name == args[1]
                 old_phone == args[2]
                 new_phone == args[3]
             IN  IF Contains(data, name)
                 THEN LET e == Record_change_phone(Get(data, name), old_phone, new_phone)
                      IN  IF e.exc # ""
                          THEN Raised(Mutated(data, name, e), e.exc, e.msg)
                          ELSE Returned(Mutated(data, name, e), "Phone number updated.", <<name>>)
                 ELSE Returned(data, "Contact not found.", <<>>))

show_phone(args, data) ==
    input_error(
        IF Len(args) < 1 THEN Raised(data, "IndexError", IndexErrorMsg)
        ELSE LET name == args[1]
             IN  IF Contains(data, name)
                 THEN Returned(data, "phones:", <<name, PhoneValues(Get(data, name))>>)
                 ELSE Returned(data, "Contact not found.", <<>>))

\* show_all carries no decorator
show_all(args, data) ==
    IF data = <<>>
    THEN Returned(data, "No contacts found.", <<>>)
    ELSE Returned(data, "all:",
                  [i \in 1..Len(data) |-> <<data[i].key, PhoneValues(data[i].value)>>])

\* parse_input: user_input is given as the words user_input.strip().split()
\* yields, so an empty line and a line of blanks are both <<>>
parse_input(user_input) ==
    IF Len(user_input) = 0
    THEN Raise("IndexError", IndexErrorMsg)
    ELSE Ok([command |-> user_input[1], args |-> Tail(user_input)])

\* the keys of the commands dict of main
commands == {"add", "change", "phone", "all", "add-birthday", "show-birthday", "birthdays"}

\* commands[command](args, book)
Call(command, args, data, today, nows) ==
    CASE command = "add"           -> add_contact(args, data)
      [] command = "change"        -> change_phone(args, data)
      [] command = "phone"         -> show_phone(args, data)
      [] command = "all"           -> show_all(args, data)
      [] command = "add-birthday"  -> add_birthday(args, data)
      [] command = "show-birthday" -> show_birthday(args, data)
      [] command = "birthdays"     -> birthdays(args, data, today, nows)

---------------------------------------------------------------------------
(* main: the console loop *)

Names == {"bob", "ann"}

P1 == [i \in 1..PhoneLen |-> "1"]

P2 == [i \in 1..PhoneLen |-> "2"]

Short == <<"1", "2", "3">>

\* the phone numbers typed at the console
ConsolePhones == {P1, P2, Short}

\* the dates typed at the console: 15.06.2024 and 31.02.2020
ConsoleDates == {<<15, 6, 2024>>, <<31, 2, 2020>>}

\* the instant the console session runs at: Monday 10.06.2024, after midnight
ConsoleNow == [year |-> 2024, month |-> 6, day |-> 10, tick |-> 1]

\* what datetime.now() returns in days_to_birthday for each of n records: never
\* earlier than today, never earlier than the call before, at most MaxDrift later
Nows(today, n) ==
    {[i \in 1..n |-> FromTicks(Ticks(today) + d[i])] :
        d \in {f \in [1..n -> 0..MaxDrift] : \A i \in 1..n : \A j \in i..n : f[i] <= f[j]}}

\* a variant of Finally: the save placed after the loop instead of in a finally
\* clause, which a propagating exception skips
Finally_afterloop(data) ==
    IF pc' = "crashed"
    THEN UNCHANGED <<file, saves>>
    ELSE file' = save_data(data) /\ saves' = saves + 1

\* the finally clause of main
Finally(data) ==
    /\ file' = save_data(data)
    /\ saves' = saves + 1

\* one pass of the while loop on the line user_input, to the next input() call
\* or out of the loop
MainStep(user_input, today, nows) ==
    /\ pc = "loop"
    /\ line' = user_input
    /\ clock' = today
    /\ LET parsed == parse_input(user_input)
       IN  IF parsed.exc # ""
           THEN /\ pc' = "crashed"
                /\ out' = Text(parsed.exc, <<parsed.msg>>)
                /\ book' = book
                /\ effective' = <<>>
                /\ Finally(book)
           ELSE LET command == parsed.val[1].command
                    args    == parsed.val[1].args
                IN  IF command \in {"close", "exit"}
                    THEN /\ pc' = "done"
                         /\ out' = Text("Good bye!", <<>>)
                         /\ book' = book
                         /\ effective' = <<>>
                         /\ Finally(book)
                    ELSE IF command = "hello"
                    THEN /\ out' = Text("How can I help you?", <<>>)
                         /\ UNCHANGED <<book, pc, file, saves>>
                         /\ effective' = <<>>
                    ELSE IF command \in commands
                    THEN LET r == Call(command, args, book, today, nows)
                         IN  /\ book' = r.book
                             /\ effective' = IF command = "birthdays"
                                             THEN get_upcoming_birthdays(book, today, nows).effective
                                             ELSE <<>>
                             /\ IF r.exc # ""
                                THEN /\ pc' = "crashed"
                                     /\ out' = Text(r.exc, <<r.msg>>)
                                     /\ Finally(r.book)
                                ELSE /\ out' = r.out
                                     /\ UNCHANGED <<pc, file, saves>>
                    ELSE /\ out' = Text("Invalid command.", <<>>)
                         /\ UNCHANGED <<book, pc, file, saves>>
                         /\ effective' = <<>>

\* a line typed at the console that reads no clock
Typed(user_input) == MainStep(user_input, clock, <<>>)

\* the model's bound on a record's phones: add is not typed for a full record
HasRoom(name) == Contains(book, name) => Len(Get(book, name).phones) < MaxPhones

Blank == Typed(<<>>)

Close == \E word \in {"close", "exit"} : Typed(<<word>>)

Hello == Typed(<<"hello">>)

Unknown == Typed(<<"remove", "bob">>)

Add ==
    \/ Typed(<<"add", "bob">>)
    \/ \E name \in Names : \E phone \in ConsolePhones :
          HasRoom(name) /\ Typed(<<"add", name, phone>>)

Change ==
    \/ Typed(<<"change", "bob", P1>>)
    \/ \E name \in Names : \E old_phone \in {P1, P2} : \E new_phone \in ConsolePhones :
          Typed(<<"change", name, old_phone, new_phone>>)

ShowPhone ==
    \/ Typed(<<"phone">>)
    \/ Typed(<<"phone", "bob">>)

ShowAll == Typed(<<"all">>)

\* birthdays are typed for bob only, to keep the directories few
AddBirthday ==
    \/ Typed(<<"add-birthday", "bob">>)
    \/ \E birthday \in ConsoleDates : Typed(<<"add-birthday", "bob", birthday>>)

ShowBirthday ==
    \/ Typed(<<"show-birthday">>)
    \/ Typed(<<"show-birthday", "bob">>)

Birthdays ==
    \E nows \in Nows(ConsoleNow, Len(book)) : MainStep(<<"birthdays">>, ConsoleNow, nows)

\* the next run of the program up to its first input() call: load_data reads
\* the file the run before left
NextRun ==
    /\ pc \in {"done", "crashed"}
    /\ pc' = "reloaded"
    /\ book' = load_data(file)
    /\ out' = Text("Welcome to the assistant bot!", <<>>)
    /\ UNCHANGED <<line, file, saves, clock, effective>>

\* the first run starts with no file
Init ==
    /\ file = <<>>
    /\ book = load_data(file)
    /\ pc = "loop"
    /\ line = <<>>
    /\ out = Text("Welcome to the assistant bot!", <<>>)
    /\ saves = 0
    /\ clock = ConsoleNow
    /\ effective = <<>>

Next ==
    \/ Blank
    \/ Close
    \/ Hello
    \/ Unknown
    \/ Add
    \/ Change
    \/ ShowPhone
    \/ ShowAll
    \/ AddBirthday
    \/ ShowBirthday
    \/ Birthdays
    \/ NextRun

Spec == Init /\ [][Next]_vars

---------------------------------------------------------------------------
(* Phone() on its own: PhoneSpec constructs a Phone from each string of      *)
(* PhoneInputs.  line is the string, out what the constructor did.           *)

PhoneChars == {"0", "7", "ARABIC-INDIC DIGIT THREE", "SUPERSCRIPT TWO", "a", " ", "-", "+"}

\* strings of up to MaxStrLen characters: one character repeated, with at most
\* one other character somewhere in it
PhoneInputs ==
    {[i \in 1..n |-> IF i = k THEN c ELSE d] :
        n \in 0..MaxStrLen, k \in 0..MaxStrLen, c \in PhoneChars,
        d \in {"7", "SUPERSCRIPT TWO", "a"}}

PhoneInit ==
    /\ line \in PhoneInputs
    /\ pc = "call"
    /\ out = Text("", <<>>)
    /\ book = AddressBook
    /\ file = <<>>
    /\ saves = 0
    /\ clock = ConsoleNow
    /\ effective = <<>>

Construct ==
    /\ pc = "call"
    /\ pc' = "constructed"
    /\ LET p == Phone(line)
       IN  out' = IF p.exc # "" THEN Text(p.exc, <<p.msg>>) ELSE Text("Phone", <<p.val[1].value>>)
    /\ UNCHANGED <<line, book, file, saves, clock, effective>>

PhoneNext == Construct

PhoneSpec == PhoneInit /\ [][PhoneNext]_vars

---------------------------------------------------------------------------
(* A Record on its own: RecordSpec calls add_phone and change_phone on one   *)
(* record, held as the only entry of book.  line is the call, out what it    *)
(* raised.                                                                   *)

P3 == [i \in 1..PhoneLen |-> "3"]

TheRecord == Get(book, "bob")

RecordInit ==
    /\ book = add_record(AddressBook, Record("bob"))
    /\ pc = "record"
    /\ line = <<>>
    /\ out = Text("", <<>>)
    /\ file = <<>>
    /\ saves = 0
    /\ clock = ConsoleNow
    /\ effective = <<>>

Called(call, e) ==
    /\ pc = "record"
    /\ line' = call
    /\ book' = Mutated(book, "bob", e)
    /\ out' = Text(e.exc, <<e.msg>>)
    /\ UNCHANGED <<pc, file, saves, clock, effective>>

CallAddPhone ==
    \E phone \in {P1, P2, Short} :
        /\ Len(TheRecord.phones) < MaxRecordPhones
        /\ Called(<<"add_phone", phone>>, Record_add_phone(TheRecord, phone))

CallChangePhone ==
    \E old_phone \in {P1, P2, P3} : \E new_phone \in {P1, P2, P3, Short} :
        Called(<<"change_phone", old_phone, new_phone>>,
               Record_change_phone(TheRecord, old_phone, new_phone))

RecordNext == CallAddPhone \/ CallChangePhone

RecordSpec == RecordInit /\ [][RecordNext]_vars

---------------------------------------------------------------------------
(* AddressBook.add_record on its own: BookSpec adds records built by the     *)
(* Record methods.  line is the record handed to the last call.              *)

RECURSIVE WithPhones(_, _, _)
WithPhones(record, phones, i) ==
    IF i > Len(phones) THEN record
    ELSE WithPhones(Record_add_phone(record, phones[i]).self, phones, i + 1)

\* Record(name), then add_phone for each of phones, then add_birthday if any
BuildRecord(name, phones, birthday) ==
    LET r == WithPhones(Record(name), phones, 1)
    IN  IF birthday = <<>> THEN r ELSE Record_add_birthday(r, birthday[1]).self

BookRecords ==
    {BuildRecord(name, phones, birthday) :
        name \in Names,
        phones \in {<<>>, <<P1>>, <<P2>>, <<P2, P1>>},
        birthday \in {<<>>, <<<<15, 6, 2024>>>>, <<<<29, 2, 2024>>>>}}

BookInit ==
    /\ book = AddressBook
    /\ pc = "book"
    /\ line = <<>>
    /\ out = Text("", <<>>)
    /\ file = <<>>
    /\ saves = 0
    /\ clock = ConsoleNow
    /\ effective = <<>>

CallAddRecord ==
    \E record \in BookRecords :
        /\ pc = "book"
        /\ line' = <<record>>
        /\ book' = add_record(book, record)
        /\ UNCHANGED <<out, pc, file, saves, clock, effective>>

BookNext == CallAddRecord

BookSpec == BookInit /\ [][BookNext]_vars

---------------------------------------------------------------------------
(* get_upcoming_birthdays on its own: BirthdaySpec lists a directory of one  *)
(* or two contacts at an instant of Todays.                                  *)

\* the months the listing is made in, every day of each
TodayMonths == {<<2023, 2>>, <<2023, 12>>, <<2024, 2>>, <<2024, 6>>}

Todays ==
    {dt \in [year : {ym[1] : ym \in TodayMonths}, month : {ym[2] : ym \in TodayMonths},
             day : 1..31, tick : 0..(TicksPerDay - 1)] :
        <<dt.year, dt.month>> \in TodayMonths /\ IsDate(dt.year, dt.month, dt.day)}

\* the birthdays of the contact listed: every day of these months of 2024
BirthdayMonths == {1, 2, 3, 6, 12}

BirthdayDates ==
    {v \in {<<d, m, 2024>> : d \in 1..31, m \in BirthdayMonths} : IsDate(v[3], v[2], v[1])}

\* one contact, ann, with any birthday of BirthdayDates; or bob before her, born
\* on 29.02 or on 15.06, and ann born in June
BirthdayBooks ==
    {add_record(AddressBook, BuildRecord("ann", <<P1>>, <<b>>)) : b \in BirthdayDates}
    \cup
    {add_record(add_record(AddressBook, BuildRecord("bob", <<P2>>, <<first>>)),
                BuildRecord("ann", <<P1>>, <<b>>)) :
        first \in {<<29, 2, 2024>>, <<15, 6, 2024>>},
        b \in {v \in BirthdayDates : v[2] = 6}}

BirthdayInit ==
    /\ book \in BirthdayBooks
    /\ pc = "call"
    /\ line = <<>>
    /\ out = Text("", <<>>)
    /\ file = <<>>
    /\ saves = 0
    /\ clock = ConsoleNow
    /\ effective = <<>>

ListUpcoming ==
    /\ pc = "call"
    /\ \E today \in Todays : \E nows \in Nows(today, Len(book)) :
        /\ pc' = "listed"
        /\ clock' = today
        /\ LET r == get_upcoming_birthdays(book, today, nows)
           IN  /\ out' = IF r.exc # "" THEN Text(r.exc, <<r.msg>>) ELSE Text("upcoming:", r.upcoming)
               /\ effective' = r.effective
        /\ UNCHANGED <<book, line, file, saves>>

BirthdayNext == ListUpcoming

BirthdaySpec == BirthdayInit /\ [][BirthdayNext]_vars

---------------------------------------------------------------------------
(* Properties *)

DecimalDigits == AsciiDigits \cup OtherDecimalDigits

\* a string of exactly ten decimal digit characters
IsTenDecimalDigits(s) ==
    /\ Len(s) = 10
    /\ \A i \in 1..Len(s) : s[i] \in DecimalDigits

\* the line just read is "change name old new" for a contact of the directory
IsChangeOf(user_input, data) ==
    /\ Len(user_input) = 4
    /\ user_input[1] = "change"
    /\ Contains(data, user_input[2])

\* C1: change_phone validates new before it scans or modifies: a 'change' of a
\* contact's phone to a new number that is not a valid 10-digit number answers
\* with the validation error and leaves the directory as it was, whether or not
\* old is among the contact's phones.
C1_ChangeValidatesFirst ==
    [][(pc = "loop" /\ IsChangeOf(line', book) /\ ~IsTenDecimalDigits(line'[4]))
          => (book' = book /\ out' = Text("Error:", <<PhoneError>>))]_vars

\* C2: no input line other than close/exit ends the loop: after such a line the
\* loop has printed a response and waits for the next line.
C2_OnlyCloseEndsLoop ==
    [][(pc = "loop" /\ ~(Len(line') > 0 /\ line'[1] \in {"close", "exit"}))
          => (pc' = "loop" /\ out'.text \notin {"IndexError", "ValueError", "KeyError"})]_vars

\* C3: while the loop runs save_data has not been executed; once the loop has
\* ended, by close/exit or by an exception, save_data has been executed exactly
\* once and the file holds the directory as the last command left it.
C3_SavedOnceOnExit ==
    /\ pc = "loop" => (saves = 0 /\ file = <<>>)
    /\ pc \in {"done", "crashed"} => (saves = 1 /\ file = <<pickle_dump(book)>>)

C3_Witness ==
    /\ pc = "crashed"
    /\ saves = 1
    /\ Len(book) = 2
    /\ file # <<>>

\* the same names, and under each name the same phones in the same order and
\* the same birthday or none
SameDirectory(a, b) ==
    /\ Keys(a) = Keys(b)
    /\ Len(a) = Cardinality(Keys(a))
    /\ Len(b) = Cardinality(Keys(b))
    /\ \A name \in Keys(a) :
          /\ Get(a, name).name.value = Get(b, name).name.value
          /\ PhoneValues(Get(a, name)) = PhoneValues(Get(b, name))
          /\ Len(Get(a, name).birthday) = Len(Get(b, name).birthday)
          /\ Get(a, name).birthday # <<>> =>
                LET x == Get(a, name).birthday[1].value
                    y == Get(b, name).birthday[1].value
                IN  x.year = y.year /\ x.month = y.month /\ x.day = y.day

\* C8: the directory the next run loads from the file is the directory the run
\* before saved: same names, same phones in order, same birthdays.
C8_RoundTrip ==
    [][(pc \in {"done", "crashed"} /\ pc' = "reloaded") => SameDirectory(book', book)]_vars

C8_Witness ==
    /\ pc = "reloaded"
    /\ Len(book) = 2
    /\ \E i \in 1..2 : Len(book[i].value.phones) = 2 /\ book[i].value.birthday # <<>>
    /\ \E i \in 1..2 : book[i].value.birthday = <<>>

\* C10: every contact has at least one phone number, and no command lowers a
\* contact's number of phones.
C10_PhonesNeverLost ==
    /\ [](pc = "loop" => \A i \in 1..Len(book) : Len(book[i].value.phones) >= 1)
    /\ [][pc = "loop" =>
            \A name \in Keys(book) :
                /\ Contains(book', name)
                /\ Len(Get(book', name).phones) >= Len(Get(book, name).phones)]_vars

\* C5: change_phone(old, new) with a valid new removes exactly the first entry
\* equal to old and appends new, the other entries keeping their order; with no
\* entry equal to old it raises 'Old phone number not found.' and changes nothing.
C5_ChangePhone ==
    [][(pc = "record" /\ Len(line') = 3 /\ line'[1] = "change_phone"
           /\ IsTenDecimalDigits(line'[3]))
          => LET old_phone == line'[2]
                 new_phone == line'[3]
                 before    == PhoneValues(Get(book, "bob"))
                 after     == PhoneValues(Get(book', "bob"))
             IN  /\ (before = <<P1, P2>> /\ old_phone = P1 /\ new_phone = P3)
                        => after = <<P2, P3>>
                 /\ IF \E i \in 1..Len(before) : before[i] = old_phone
                    THEN /\ \E i \in 1..Len(before) :
                               /\ before[i] = old_phone
                               /\ \A j \in 1..(i - 1) : before[j] # old_phone
                               /\ after = SubSeq(before, 1, i - 1)
                                          \o SubSeq(before, i + 1, Len(before))
                                          \o <<new_phone>>
                         /\ Len(after) = Len(before)
                         /\ out'.text = ""
                    ELSE /\ after = before
                         /\ out' = Text("ValueError", <<OldPhoneError>>)]_vars

C5_Witness ==
    /\ pc = "record"
    /\ line = <<"change_phone", P1, P3>>
    /\ out.text = ""
    /\ PhoneValues(Get(book, "bob")) = <<P2, P1, P3>>

\* C9: add_record of a record whose name is already a key leaves exactly that
\* record under the name, keeps every other entry, and adds no entry.
C9_AddRecordReplaces ==
    [][(pc = "book" /\ Len(line') = 1 /\ Contains(book, line'[1].name.value))
          => LET record == line'[1]
                 name   == record.name.value
             IN  /\ Cardinality({i \in 1..Len(book') : book'[i].key = name}) = 1
                 /\ Get(book', name).phones = record.phones
                 /\ Get(book', name).birthday = record.birthday
                 /\ Get(book', name).name = record.name
                 /\ Len(book') = Len(book)
                 /\ \A i \in 1..Len(book) : book[i].key # name => book'[i] = book[i]]_vars

C9_Witness ==
    /\ pc = "book"
    /\ Len(book) = 2
    /\ Len(line) = 1
    /\ line[1].name.value = book[1].key
    /\ book[1].value = line[1]
    /\ line[1].phones = <<>>
    /\ line[1].birthday = <<>>
    /\ book[2].value.phones # <<>>

\* C6: Phone(value) succeeds, storing value unchanged, exactly when value is ten
\* decimal digit characters; every other string raises the validation error.
C6_PhoneIffTenDecimalDigits ==
    pc = "constructed" =>
        IF IsTenDecimalDigits(line)
        THEN out.text = "Phone" /\ out.data[1] = line
        ELSE out.text = "ValueError" /\ out.data[1] = PhoneError

\* the calendar date k days after the date of the instant dt
DateAfter(dt, k) == FromOrdinal(ToOrdinal(dt.year, dt.month, dt.day) + k)

\* a calendar date moved to the following Monday when it is a Saturday or Sunday
NextWorkday(d) ==
    LET w == (ToOrdinal(d.year, d.month, d.day) + 6) % 7
    IN  IF w = 5 THEN DateAfter(d, 2) ELSE IF w = 6 THEN DateAfter(d, 1) ELSE d

\* the birthday falls on the calendar date k days after the listing's date
Occurs(birthday, k) ==
    /\ DateAfter(clock, k).month = birthday.month
    /\ DateAfter(clock, k).day = birthday.day

ListedOn(name, d) ==
    /\ out.text = "upcoming:"
    /\ \E i \in 1..Len(out.data) :
          out.data[i].name = name /\ out.data[i].birthday = <<d.day, d.month, d.year>>

Listed(name) ==
    /\ out.text = "upcoming:"
    /\ \E i \in 1..Len(out.data) : out.data[i].name = name

\* C4: a contact whose birthday next occurs k calendar days after the listing's
\* date is listed with that date, moved to Monday from a weekend, when
\* 1 <= k <= 7, and is not listed when k >= 9; at any time of day.
C4_ListedByCalendarDays ==
    pc = "listed" =>
        \A i \in 1..Len(book) :
            LET name     == book[i].key
                birthday == book[i].value.birthday[1].value
            IN  /\ \A k \in 1..7 :
                      (Occurs(birthday, k) /\ \A j \in 0..(k - 1) : ~Occurs(birthday, j))
                          => ListedOn(name, NextWorkday(DateAfter(clock, k)))
                /\ (\A k \in 0..8 : ~Occurs(birthday, k)) => ~Listed(name)

\* C7: every reported date is a Monday to Friday: the effective date (the
\* listing's instant plus days_to_birthday whole days, at most 7) is reported 2
\* days later when it is a Saturday, 1 day later when it is a Sunday, and as it
\* is otherwise.
C7_ReportedOnWorkdays ==
    (pc = "listed" /\ out.text = "upcoming:") =>
        /\ Len(out.data) = Len(effective)
        /\ \A i \in 1..Len(effective) :
              LET e == effective[i]
                  r == out.data[i].birthday
                  w == (ToOrdinal(e.year, e.month, e.day) + 6) % 7
              IN  /\ e.tick = clock.tick
                  /\ \E k \in 0..7 : Ticks(e) = Ticks(clock) + k * TicksPerDay
                  /\ (ToOrdinal(r[3], r[2], r[1]) + 6) % 7 \in 0..4
                  /\ r = LET d == DateAfter(e, IF w = 5 THEN 2 ELSE IF w = 6 THEN 1 ELSE 0)
                         IN  <<d.day, d.month, d.year>>

C7_Witness ==
    /\ pc = "listed"
    /\ out.text = "upcoming:"
    /\ Len(effective) = 2
    /\ (ToOrdinal(effective[1].year, effective[1].month, effective[1].day) + 6) % 7 = 5
    /\ (ToOrdinal(effective[2].year, effective[2].month, effective[2].day) + 6) % 7 = 6
    /\ out.data[1].birthday = <<17, 6, 2024>>
    /\ out.data[2].birthday = <<17, 6, 2024>>

===========================================================================
